---- MODULE Spec2Model ----
(***************************************************************************)
(* A model of the set-associative read cache of cache.c / cache.h.         *)
(*                                                                         *)
(* A cache is built by cache_new from (num_bytes, block_size,              *)
(* associativity, policies) and then driven by cache_read and cache_write. *)
(* Addresses are 64-bit; the model keeps every mask as the set of the bit  *)
(* positions it selects (a subset of 0..63), and reads addresses that are  *)
(* small naturals, so that ANDing and shifting are exact.                  *)
(*                                                                         *)
(* Bytes are naturals below 128.  A byte of the arena that malloc left     *)
(* uninitialised, or a byte past the end of the arena, has an indeterminate*)
(* value: it is represented by the negative number -(position + 1), which  *)
(* is stable from one read to the next and is equal to no determinate byte.*)
(***************************************************************************)
EXTENDS Integers, Sequences, FiniteSets, TLC

VARIABLES
    cache,          \* the fields of cache_t that cache_new fixes for good
    lines,          \* cache->lines: line index -> [is_valid, tag]
    mru_list,       \* cache->sets[s].mru_list: set index -> (position -> slot)
    memory,         \* cache->memory: the arena the blocks of the lines live in
    access_count,   \* cache->access_count
    miss_count,     \* cache->miss_count
    status,         \* "ok", or "crashed" once an out-of-bounds store killed the run
    log,            \* history: one record per cache_read call, oldest first
    writes,         \* history: the number of cache_write calls made
    failed          \* the allocation of cache_new that returned NULL, or "none"

vars ==
    <<cache, lines, mru_list, memory, access_count, miss_count, status, log,
      writes, failed>>

(***************************************************************************)
(* Bounds of the model.                                                    *)
(***************************************************************************)
\* the longest sequence of cache_read calls explored
MaxReads == 4
\* the largest number of cache_write calls explored
MaxWrites == 1

(***************************************************************************)
(* cache.h: the policy flags.                                              *)
(***************************************************************************)
CACHE_REPLACEMENTPOLICY_MASK == 12
CACHE_REPLACEMENTPOLICY_RANDOM == 0
CACHE_REPLACEMENTPOLICY_LRU == 4
CACHE_REPLACEMENTPOLICY_MRU == 8
CACHE_WRITEPOLICY_MASK == 3
CACHE_WRITEPOLICY_WRITEBACK == 1
CACHE_WRITEPOLICY_WRITENOALLOCATE == 2
CACHE_TRACE_MASK == 16
CACHE_TRACEPOLICY == 16

\* the width of uintptr_t / unsigned long on the LP64 target of the code
ADDRESS_BITS == 64

(***************************************************************************)
(* Integer helpers: C's operators on the values the model uses.            *)
(***************************************************************************)
RECURSIVE Pow2(_)
Pow2(n) == IF n <= 0 THEN 1 ELSE 2 * Pow2(n - 1)

\* a & b on non-negative ints
RECURSIVE BitAnd(_, _)
BitAnd(a, b) ==
    IF a = 0 \/ b = 0 THEN 0
    ELSE (a % 2) * (b % 2) + 2 * BitAnd(a \div 2, b \div 2)

\* a / b of C on a >= 0, b > 0
CDiv(a, b) == a \div b

\* a % b of C (the sign of the result is the sign of a), b > 0
CRem(a, b) == IF a >= 0 THEN a % b ELSE -((-a) % b)

\* address & mask, for a mask given as a set of bit positions: the bits of
\* address from position i up that the mask selects, as a value counted from
\* position i
RECURSIVE AndMaskFrom(_, _, _)
AndMaskFrom(address, mask, i) ==
    IF address = 0 THEN 0
    ELSE (IF i \in mask THEN address % 2 ELSE 0)
         + 2 * AndMaskFrom(address \div 2, mask, i + 1)

AndMask(address, mask) == AndMaskFrom(address, mask, 0)

\* mask << n in a 64-bit unsigned
ShiftLeftMask(mask, n) == {i + n : i \in {j \in mask : j + n < ADDRESS_BITS}}

\* ~mask in a 64-bit unsigned
NotMask(mask) == (0 .. ADDRESS_BITS - 1) \ mask

(***************************************************************************)
(* cache.c: logbase2 and maskbits.                                         *)
(***************************************************************************)
RECURSIVE logbase2(_)
logbase2(value) == IF value > 1 THEN 1 + logbase2(value \div 2) ELSE 0

\* maskbits(nbits) is (1L << nbits) - 1.  For nbits >= 64 the shift is
\* undefined: a build that takes the shift count modulo 64 yields
\* (1 << 0) - 1 = 0, a build that shifts the bit out yields 0 - 1 = all ones.
\* The operator gives the set of the masks a build can produce.
maskbits(nbits) ==
    IF nbits < ADDRESS_BITS THEN { 0 .. nbits - 1 }
    ELSE { {}, 0 .. ADDRESS_BITS - 1 }

(***************************************************************************)
(* The inputs explored.                                                    *)
(***************************************************************************)
\* (num_bytes, block_size, associativity) handed to cache_new: a
\* direct-mapped cache of two sets, a two-way cache of two sets, a fully
\* associative cache of four lines, and the one-byte cache whose tag starts
\* at bit 0 (tag_shift = 0).
Geometries ==
    { [num_bytes |-> 8,  block_size |-> 4, associativity |-> 1],
      [num_bytes |-> 16, block_size |-> 4, associativity |-> 2],
      [num_bytes |-> 16, block_size |-> 4, associativity |-> 4],
      [num_bytes |-> 1,  block_size |-> 1, associativity |-> 1] }

\* the policy flags handed to cache_new: each replacement policy alone, LRU
\* with the trace bit set and MRU with a write-policy bit set
PolicyFlags ==
    { CACHE_REPLACEMENTPOLICY_RANDOM,
      CACHE_REPLACEMENTPOLICY_LRU,
      CACHE_REPLACEMENTPOLICY_MRU,
      CACHE_REPLACEMENTPOLICY_LRU + CACHE_TRACEPOLICY,
      CACHE_REPLACEMENTPOLICY_MRU + CACHE_WRITEPOLICY_WRITEBACK }

\* the arguments of the cache_new calls explored: every geometry with each
\* replacement policy alone, and every geometry of more than one byte with
\* the other policy words as well
Configurations ==
    {c \in Geometries \X PolicyFlags :
        \/ c[1].num_bytes > 1
        \/ c[2] \in {CACHE_REPLACEMENTPOLICY_RANDOM,
                     CACHE_REPLACEMENTPOLICY_LRU,
                     CACHE_REPLACEMENTPOLICY_MRU}}

\* the addresses read in any order.  With 4-byte blocks and two sets all
\* four fall in set 1, with tags 0, 1, 1, 2: 12 and 13 lie in one block, and
\* 13 is not word aligned (offset 1).
Addrs == {4, 12, 13, 20}

\* the addresses read in this order by the scripted run: 0x00, 0x10, 0x20,
\* 0x30, 0x00, 0x40, 0x10.  With 4-byte blocks and two sets they all fall in
\* set 0.
ScenarioReads == <<0, 16, 32, 48, 0, 64, 16>>

\* the values the injected generator (func_t: int (*)(void)) returns: an
\* int below zero and one above every associativity
RngValues == {-1, 5}

\* a second scripted run, which reads both sets of a two-set cache.  With
\* 4-byte blocks and two sets, 4, 12, 20 and 28 fall in set 1 with tags 0, 1,
\* 2 and 3, and 16 falls in set 0 with tag 2, the tag of 20.
TwoSetReads == <<4, 12, 20, 28, 16, 20>>

\* the scripted runs
Scripts == {ScenarioReads, TwoSetReads}

\* the allocations of cache_new and cache_set_init, by what they allocate:
\* malloc(sizeof(cache_t)), malloc(num_bytes), calloc(num_lines, ..),
\* calloc(num_sets, ..) and the malloc of a set's mru_list
Allocations == {"cache", "memory", "lines", "sets", "mru_list"}

\* the operands of cache_write
WriteAddrs == {0}
WriteValues == {7}

\* the byte the process's memory holds at an address (never written by the
\* cache, so constant); distinct at all the addresses a fill copies
BackingByte(a) == (a * 7 + 3) % 128

(***************************************************************************)
(* cache.c: cache_new and cache_set_init.                                  *)
(***************************************************************************)
\* the caches cache_new can return: one, or one per outcome of the
\* undefined shift in maskbits(64 - tag_shift) when tag_shift = 0
cache_new(num_bytes, block_size, associativity, policies) ==
    LET num_lines   == CDiv(num_bytes, block_size)
        num_sets    == CDiv(num_lines, associativity)
        offset_bits == logbase2(block_size)
        index_bits  == logbase2(num_sets)
        tag_shift   == offset_bits + index_bits
    IN  { [ policies          |-> policies,
            num_bytes         |-> num_bytes,
            line_size         |-> block_size,
            num_lines         |-> num_lines,
            associativity     |-> associativity,
            num_sets          |-> num_sets,
            block_offset_mask |-> offset_mask,
            cache_index_shift |-> offset_bits,
            cache_index_mask  |-> ShiftLeftMask(index_mask, offset_bits),
            tag_shift         |-> tag_shift,
            tag_mask          |-> ShiftLeftMask(tag_bits, tag_shift) ]
          : offset_mask \in maskbits(offset_bits),
            index_mask  \in maskbits(index_bits),
            tag_bits    \in maskbits(ADDRESS_BITS - tag_shift) }

\* cache_set_init: every line invalid (the tag is calloc's zero)
InitialLines(c) ==
    [i \in 0 .. c.num_lines - 1 |-> [is_valid |-> 0, tag |-> 0]]

\* cache_set_init: mru_list[i] = i
InitialMruList(c) ==
    [s \in 0 .. c.num_sets - 1 |-> [i \in 0 .. c.associativity - 1 |-> i]]

\* malloc(num_bytes): every byte of the arena indeterminate
InitialMemory(c) ==
    [p \in 0 .. c.num_bytes - 1 |-> -(p + 1)]

\* cache_set->first_index, as the loop of cache_new hands it out
first_index(s) == s * cache.associativity

\* cache_set->size
size == cache.associativity

(***************************************************************************)
(* cache.c: the helpers of cache_read.                                     *)
(***************************************************************************)
\* value >> n
ShiftRight(value, n) == value \div Pow2(n)

\* the three fields cache_read cuts an address into
Offset(address) == AndMask(address, cache.block_offset_mask)
Index(address) ==
    ShiftRight(AndMask(address, cache.cache_index_mask), cache.cache_index_shift)
Tag(address) == ShiftRight(AndMask(address, cache.tag_mask), cache.tag_shift)

\* a variant that forgets the valid bit
check_tag_only(cache_line, tag) == cache_line.tag = tag

cache_line_check_validity_and_tag(cache_line, tag) ==
    cache_line.is_valid # 0 /\ cache_line.tag = tag

\* a variant that stores the head and forgets to shift the others
make_mru_without_shift(list, line_index) ==
    [i \in DOMAIN list |-> IF i = 0 THEN line_index ELSE list[i]]

\* a variant that exchanges the slot with the head instead of shifting
make_mru_by_swap(list, line_index) ==
    LET at == CHOOSE i \in DOMAIN list : list[i] = line_index
    IN  [i \in DOMAIN list |->
            IF i = 0 THEN line_index
            ELSE IF i = at THEN list[0]
            ELSE list[i]]

\* cache_line_make_mru on one set's list: the list after the call
cache_line_make_mru(list, line_index) ==
    LET found == {i \in 0 .. cache.associativity - 1 : list[i] = line_index}
        index_of_line_index ==
            IF found = {} THEN -1
            ELSE CHOOSE i \in found : \A j \in found : i <= j
    IN  [i \in DOMAIN list |->
            IF i = 0 THEN line_index
            ELSE IF i <= index_of_line_index THEN list[i - 1]
            ELSE list[i]]

\* a variant that updates the list under every policy word
UsesMruListAlways(policies) == TRUE

\* cache->policies == LRU || cache->policies == MRU, as both callers test it
UsesMruList(policies) ==
    \/ policies = CACHE_REPLACEMENTPOLICY_LRU
    \/ policies = CACHE_REPLACEMENTPOLICY_MRU

\* cache_set_find_matching_line: the slot of the first valid line of the
\* set with the tag (-1 for NULL), and the set's list after the call
cache_set_find_matching_line(policies, s, tag) ==
    LET matching ==
            {i \in 0 .. size - 1 :
                cache_line_check_validity_and_tag(lines[first_index(s) + i], tag)}
        slot ==
            IF matching = {} THEN -1
            ELSE CHOOSE i \in matching : \A j \in matching : i <= j
    IN  [ slot |-> slot,
          mru  |-> IF slot >= 0 /\ UsesMruList(policies)
                   THEN cache_line_make_mru(mru_list[s], slot)
                   ELSE mru_list[s] ]

\* the slots of the set whose line is invalid
InvalidSlots(s) ==
    {i \in 0 .. size - 1 : lines[first_index(s) + i].is_valid = 0}

\* find_available_cache_line calls the generator only when no line of the
\* set is invalid and the policy word is neither MRU nor LRU
CallsGenerator(policies, s) ==
    /\ InvalidSlots(s) = {}
    /\ policies # CACHE_REPLACEMENTPOLICY_MRU
    /\ policies # CACHE_REPLACEMENTPOLICY_LRU

\* find_available_cache_line: the index (into cache->lines) of the line
\* returned, the set's list after the call, and the values drawn from the
\* generator; mru is the list on entry (cache_set_find_matching_line found
\* nothing, so it left the list alone)
find_available_cache_line(policies, s, mru, random_number) ==
    LET invalid == InvalidSlots(s) IN
    IF invalid # {} THEN
        LET i == CHOOSE x \in invalid : \A y \in invalid : x <= y
        IN  [ line |-> first_index(s) + i,
              mru  |-> IF UsesMruList(policies)
                       THEN cache_line_make_mru(mru, i) ELSE mru,
              rng  |-> << >> ]
    ELSE IF policies = CACHE_REPLACEMENTPOLICY_MRU THEN
        LET after == cache_line_make_mru(mru, mru[0])
        IN  [ line |-> first_index(s) + after[0], mru |-> after, rng |-> << >> ]
    ELSE IF policies = CACHE_REPLACEMENTPOLICY_LRU THEN
        LET lru_index == mru[size - 1]
        IN  [ line |-> first_index(s) + lru_index,
              mru  |-> cache_line_make_mru(mru, lru_index),
              rng  |-> << >> ]
    ELSE
        LET random_line == CRem(random_number, size)
        IN  [ line |-> first_index(s) + random_line,
              mru  |-> mru,
              rng  |-> <<random_number>> ]

\* a variant that sets the valid bit and forgets to store the tag
LinesAfterAddKeepingTag(line, tag) ==
    [lines EXCEPT ![line] = [is_valid |-> 1, tag |-> lines[line].tag]]

\* cache_set_add, the stores through the line returned: cache->lines after
\* line->tag = tag and line->is_valid = 1
LinesAfterAdd(line, tag) ==
    [lines EXCEPT ![line] = [is_valid |-> 1, tag |-> tag]]

\* cache_set_add, the memcpy: line_size bytes of the process's memory from
\* address & ~block_offset_mask on, into the block of the line, which
\* cache_new placed at memory + line * line_size
MemoryAfterAdd(line, address) ==
    LET base  == AndMask(address, NotMask(cache.block_offset_mask))
        block == line * cache.line_size
    IN  [p \in DOMAIN memory |->
            IF block <= p /\ p < block + cache.line_size
            THEN BackingByte(base + (p - block))
            ELSE memory[p]]

\* the byte at position p counted from cache->memory: a byte of the arena,
\* or, past its end, an indeterminate byte of the heap
ArenaByte(mem, p) == IF p < cache.num_bytes THEN mem[p] ELSE -(p + 1)

\* cache_line_retrieve_data: *(uint32_t *)&block[offset], as the four bytes
\* it reads, lowest address first
cache_line_retrieve_data(mem, line, offset) ==
    LET at == line * cache.line_size + offset
    IN  <<ArenaByte(mem, at), ArenaByte(mem, at + 1),
          ArenaByte(mem, at + 2), ArenaByte(mem, at + 3)>>

\* the four bytes a load through a pointer outside cache->lines yields
WildWord == <<-1001, -1002, -1003, -1004>>

\* the text of the fprintf on the miss path and on the hit path
TRACE_TEXT_ON_MISS == "Cache hit in set"
TRACE_TEXT_ON_HIT == "Cache  hit in set"

\* (cache->policies & CACHE_TRACE_MASK) == CACHE_TRACEPOLICY
TraceEnabled(policies) == BitAnd(policies, CACHE_TRACE_MASK) = CACHE_TRACEPOLICY

\* what one cache_read(address) does to a cache whose policy word is
\* policies, when the generator would return random_number: the decoded
\* fields, hit or miss, the line matched or filled, the list of the set, the
\* lines and the arena after the call, the word returned and the trace
\* records printed.  in_bounds is FALSE when the line to fill lies outside
\* cache->lines, where the stores of cache_set_add are undefined.
cache_read(policies, address, random_number) ==
    LET offset == Offset(address)
        index  == Index(address)
        tag    == Tag(address)
        match  == cache_set_find_matching_line(policies, index, tag)
        record(text) ==
            IF TraceEnabled(policies)
            THEN << [text |-> text, set |-> index, address |-> address] >>
            ELSE << >>
        entry  == [ address |-> address, offset |-> offset, index |-> index,
                    tag |-> tag, full |-> InvalidSlots(index) = {},
                    mru_before |-> mru_list[index] ]
    IN  IF match.slot < 0 THEN
            LET avail == find_available_cache_line(policies, index, match.mru,
                                                   random_number)
                ok    == 0 <= avail.line /\ avail.line < cache.num_lines
                mem   == IF ok THEN MemoryAfterAdd(avail.line, address) ELSE memory
            IN  [ hit |-> FALSE, line |-> avail.line, mru |-> avail.mru,
                  rng |-> avail.rng, in_bounds |-> ok,
                  lines |-> IF ok THEN LinesAfterAdd(avail.line, tag) ELSE lines,
                  memory |-> mem,
                  word |-> IF ok THEN cache_line_retrieve_data(mem, avail.line, offset)
                           ELSE WildWord,
                  trace |-> record(TRACE_TEXT_ON_MISS),
                  entry |-> entry ]
        ELSE
            [ hit |-> TRUE, line |-> first_index(index) + match.slot,
              mru |-> match.mru, rng |-> << >>, in_bounds |-> TRUE,
              lines |-> lines, memory |-> memory,
              word |-> cache_line_retrieve_data(memory,
                            first_index(index) + match.slot, offset),
              trace |-> record(TRACE_TEXT_ON_HIT),
              entry |-> entry ]

\* the entry of the history for a call with outcome o; returned is FALSE
\* when the call never returned
LogEntry(o, returned) ==
    [ address |-> o.entry.address, offset |-> o.entry.offset,
      index |-> o.entry.index, tag |-> o.entry.tag, full |-> o.entry.full,
      mru_before |-> o.entry.mru_before, mru_after |-> o.mru,
      hit |-> o.hit, line |-> o.line, rng |-> o.rng, in_bounds |-> o.in_bounds,
      word |-> o.word, trace |-> o.trace, returned |-> returned ]

(***************************************************************************)
(* The state machine.                                                      *)
(***************************************************************************)
\* cache_new never tests what malloc and calloc return.  With NULL for the
\* cache_t, the store of line 52 goes through NULL; with NULL for the lines,
\* the store of line 89; with NULL for the sets, the first store of
\* cache_set_init; with NULL for a set's mru_list, the store of line 18: the
\* process is killed inside cache_new.  With NULL for the arena nothing in
\* cache_new goes through the pointer: every line's block is NULL plus a
\* multiple of line_size, and cache_new returns the cache.
ConstructionStatus(failed_allocation) ==
    IF failed_allocation \in {"none", "memory"} THEN "ok" ELSE "crashed"

\* the state cache_new leaves, at most one allocation failing.  When the
\* process was killed in cache_new no operation follows, and the other
\* variables keep the values of a completed construction.
InitWith(configurations) ==
    /\ \E c \in configurations :
          cache \in cache_new(c[1].num_bytes, c[1].block_size,
                              c[1].associativity, c[2])
    /\ failed \in Allocations \cup {"none"}
    /\ lines = InitialLines(cache)
    /\ mru_list = InitialMruList(cache)
    /\ memory = InitialMemory(cache)
    /\ access_count = 0
    /\ miss_count = 0
    /\ status = ConstructionStatus(failed)
    /\ log = << >>
    /\ writes = 0

Init == InitWith(Configurations)

\* the values the generator may hand to this call: it is consulted only
\* when find_available_cache_line reaches its last branch
Draws(address) ==
    IF /\ cache_set_find_matching_line(cache.policies, Index(address),
                                       Tag(address)).slot < 0
       /\ CallsGenerator(cache.policies, Index(address))
    THEN RngValues ELSE {0}

\* cache_read(cache, address, generate_random_number), the line to fill
\* inside cache->lines (always so on a hit)
ReadReturns(address, random_number) ==
    LET o == cache_read(cache.policies, address, random_number) IN
    /\ failed = "none"
    /\ o.in_bounds
    /\ lines' = o.lines
    /\ mru_list' = [mru_list EXCEPT ![o.entry.index] = o.mru]
    /\ memory' = o.memory
    /\ access_count' = access_count + 1
    /\ miss_count' = IF o.hit THEN miss_count ELSE miss_count + 1
    /\ log' = Append(log, LogEntry(o, TRUE))
    /\ UNCHANGED <<cache, status, writes, failed>>

\* cache_read on a miss whose line to fill is lines[first_index + random_line]
\* with a negative index: the stores and the memcpy of cache_set_add go
\* through a pointer outside cache->lines.  Either the process is killed
\* there, or the stores land outside the cache's objects and the call
\* returns whatever the wild block pointer leads to.
ReadOutOfBounds(address, random_number) ==
    LET o == cache_read(cache.policies, address, random_number) IN
    /\ failed = "none"
    /\ ~o.in_bounds
    /\ \E killed \in BOOLEAN :
          /\ status' = IF killed THEN "crashed" ELSE "ok"
          /\ log' = Append(log, LogEntry(o, ~killed))
    /\ mru_list' = [mru_list EXCEPT ![o.entry.index] = o.mru]
    /\ access_count' = access_count + 1
    /\ miss_count' = miss_count + 1
    /\ UNCHANGED <<cache, lines, memory, writes, failed>>

\* cache_read on a cache whose arena is NULL: the counters are incremented
\* and, on a miss, cache_set_add stores the tag and the valid bit; then the
\* memcpy into line->block (on a hit, the load from it) goes through NULL
\* plus a small offset, and the process is killed.
ReadNullArena(address, random_number) ==
    LET o == cache_read(cache.policies, address, random_number) IN
    /\ failed = "memory"
    /\ lines' = o.lines
    /\ mru_list' = [mru_list EXCEPT ![o.entry.index] = o.mru]
    /\ access_count' = access_count + 1
    /\ miss_count' = IF o.hit THEN miss_count ELSE miss_count + 1
    /\ status' = "crashed"
    /\ log' = Append(log, LogEntry(o, FALSE))
    /\ UNCHANGED <<cache, memory, writes, failed>>

ReadCall(address) ==
    \E random_number \in Draws(address) :
        \/ ReadReturns(address, random_number)
        \/ ReadOutOfBounds(address, random_number)
        \/ ReadNullArena(address, random_number)

\* a caller reads any of the addresses
CacheRead ==
    /\ status = "ok"
    /\ Len(log) < MaxReads
    /\ \E address \in Addrs : ReadCall(address)

\* a caller reads the addresses of a scripted run, in order
CacheReadScenario ==
    /\ status = "ok"
    /\ \E script \in Scripts :
          /\ Len(log) < Len(script)
          /\ \A i \in DOMAIN log : log[i].address = script[i]
          /\ ReadCall(script[Len(log) + 1])

\* cache_write(cache, address, value, generate_random_number): the body is
\* empty
CacheWrite ==
    /\ status = "ok"
    /\ writes < MaxWrites
    /\ \E address \in WriteAddrs, value \in WriteValues :
          writes' = writes + 1
    /\ UNCHANGED <<cache, lines, mru_list, memory, access_count, miss_count,
                   status, log, failed>>

Next == CacheRead \/ CacheReadScenario \/ CacheWrite

Spec == Init /\ [][Next]_vars

(***************************************************************************)
(* Vocabulary of the properties.                                           *)
(***************************************************************************)
\* the indices into cache->lines of the lines of set s
LinesOfSet(s) == first_index(s) .. first_index(s) + cache.associativity - 1

\* the set an address selects holds a valid line with the address's tag
SetHoldsTag(address) ==
    \E i \in LinesOfSet(Index(address)) :
        lines[i].is_valid = 1 /\ lines[i].tag = Tag(address)

\* this step is a cache_read call; the call's entry is the last of log'
IsReadStep == Len(log') = Len(log) + 1

\* this step is a cache_write call
IsWriteStep == writes' = writes + 1

\* the policy the replacement bits of the policy word select
SelectedReplacement == BitAnd(cache.policies, CACHE_REPLACEMENTPOLICY_MASK)

(***************************************************************************)
(* C1.  Every cache_read call increases access_count by exactly 1; it      *)
(* increases miss_count by exactly 1 when the addressed set holds no valid *)
(* line with the address's tag, and leaves miss_count unchanged when it    *)
(* does.  So miss_count <= access_count in every reachable state.          *)
(***************************************************************************)
C1_ReadCounts ==
    /\ [][IsReadStep =>
            LET address == log'[Len(log')].address IN
            /\ access_count' = access_count + 1
            /\ SetHoldsTag(address) => miss_count' = miss_count
            /\ ~SetHoldsTag(address) => miss_count' = miss_count + 1]_vars
    /\ [](miss_count <= access_count)

\* a run in which reads have hit and have missed
C1_Witness ==
    /\ \E i \in DOMAIN log : log[i].hit
    /\ \E i \in DOMAIN log : ~log[i].hit
    /\ 0 < miss_count /\ miss_count < access_count

(***************************************************************************)
(* More vocabulary: the history of touches.                                *)
(***************************************************************************)
\* the reads before the k-th that matched or filled line l
TouchesBefore(l, k) ==
    {j \in 1 .. k - 1 : log[j].in_bounds /\ log[j].line = l}

\* the position in the history of the latest touch of line l before the
\* k-th read (0: never touched)
LastTouch(l, k) ==
    IF TouchesBefore(l, k) = {} THEN 0
    ELSE CHOOSE j \in TouchesBefore(l, k) : \A i \in TouchesBefore(l, k) : i <= j

\* the k-th read missed in a set all of whose lines were valid
IsEviction(k) == ~log[k].hit /\ log[k].full

\* the slot, within its set, of the line the k-th read matched or filled
SlotOf(k) == log[k].line - first_index(log[k].index)

\* the cache of the scripted run: 4 lines of 4 bytes, fully associative
IsScenarioCache ==
    /\ cache.num_lines = 4 /\ cache.line_size = 4 /\ cache.associativity = 4

\* the reads so far are the first n of the scripted run, and nothing else
\* was called
ScenarioPrefix(n) ==
    /\ Len(log) = n
    /\ writes = 0
    /\ \A i \in 1 .. n : log[i].address = ScenarioReads[i]

(***************************************************************************)
(* C2.  With LRU replacement selected, a read that misses in a set whose   *)
(* lines are all valid overwrites the line of that set whose latest touch  *)
(* (fill or hit) is older than the latest touch of every other line of the *)
(* set, and leaves the filled line at the head of the set's recency order. *)
(* In the 4-line fully associative cache with 4-byte blocks, the reads     *)
(* 0x00, 0x10, 0x20, 0x30, 0x00, 0x40 give miss_count = 5 and              *)
(* access_count = 6, and a following read of 0x10 is a miss.               *)
(***************************************************************************)
C2_LruEvictsLeastRecent ==
    SelectedReplacement = CACHE_REPLACEMENTPOLICY_LRU =>
        /\ \A k \in DOMAIN log :
              IsEviction(k) =>
                 /\ log[k].line \in LinesOfSet(log[k].index)
                 /\ \A l \in LinesOfSet(log[k].index) \ {log[k].line} :
                       LastTouch(log[k].line, k) < LastTouch(l, k)
                 /\ log[k].mru_after[0] = SlotOf(k)
        /\ IsScenarioCache /\ ScenarioPrefix(6) =>
              miss_count = 5 /\ access_count = 6
        /\ IsScenarioCache /\ ScenarioPrefix(7) => ~log[7].hit

(***************************************************************************)
(* C3.  With MRU replacement selected, a read that misses in a set whose   *)
(* lines are all valid overwrites the line of that set touched most        *)
(* recently (so never the least recently touched one when associativity    *)
(* > 1), and that line stays at the head of the recency order.             *)
(***************************************************************************)
C3_MruEvictsMostRecent ==
    SelectedReplacement = CACHE_REPLACEMENTPOLICY_MRU =>
        \A k \in DOMAIN log :
           IsEviction(k) =>
              /\ log[k].line \in LinesOfSet(log[k].index)
              /\ \A l \in LinesOfSet(log[k].index) \ {log[k].line} :
                    LastTouch(log[k].line, k) > LastTouch(l, k)
              /\ log[k].mru_before[0] = SlotOf(k)
              /\ log[k].mru_after[0] = SlotOf(k)

(***************************************************************************)
(* C4.  The replacement policy, the write-policy bits and the trace bit    *)
(* are independent: a cache created with the same geometry and the same    *)
(* replacement bits but other write-policy or trace bits gives, read for   *)
(* read, the same hit or miss, the same line matched or evicted and the    *)
(* same recency order.  Stated on each reachable state: the next read does *)
(* to this cache what it does to the cache that has only the replacement   *)
(* bits set (which, as long as that has held, is in the same state).       *)
(***************************************************************************)
C4_FlagsIndependent ==
    status = "ok" =>
        \A address \in Addrs : \A random_number \in RngValues :
            LET this == cache_read(cache.policies, address, random_number)
                twin == cache_read(SelectedReplacement, address, random_number)
            IN  /\ this.hit = twin.hit
                /\ this.line = twin.line
                /\ this.mru = twin.mru

(***************************************************************************)
(* C5.  Every cache_write call increases access_count by exactly 1.        *)
(***************************************************************************)
C5_WriteCounts == [][IsWriteStep => access_count' = access_count + 1]_vars

(***************************************************************************)
(* C6.  Once an address has been read, every further read of the same      *)
(* address with no read of another address in between is a hit and returns *)
(* the same word, under every replacement policy and geometry.             *)
(***************************************************************************)
C6_ReadIdempotent ==
    \A k \in 1 .. Len(log) - 1 :
        log[k + 1].address = log[k].address =>
            /\ log[k + 1].hit
            /\ log[k + 1].word = log[k].word

(***************************************************************************)
(* C7.  In a direct-mapped cache, under every replacement policy: a read   *)
(* of A, then a read of a different address B that maps to the same set,   *)
(* then a second read of A: that second read of A is a miss.               *)
(***************************************************************************)
C7_DirectMappedConflict ==
    cache.associativity = 1 =>
        \A k \in 1 .. Len(log) - 2 :
            /\ log[k + 2].address = log[k].address
            /\ log[k + 1].address # log[k].address
            /\ log[k + 1].index = log[k].index
            => ~log[k + 2].hit

\* C7 as amended: the same, for a B that maps to the same set and whose tag
\* differs from A's (B lies in another block, not only at another address)
C7_DirectMappedConflictOtherTag ==
    cache.associativity = 1 =>
        \A k \in 1 .. Len(log) - 2 :
            /\ log[k + 2].address = log[k].address
            /\ log[k + 1].tag # log[k].tag
            /\ log[k + 1].index = log[k].index
            => ~log[k + 2].hit

\* a direct-mapped cache has read A, a B of the same set and another tag,
\* and A again
C7_Witness ==
    /\ cache.associativity = 1
    /\ \E k \in 1 .. Len(log) - 2 :
          /\ log[k + 2].address = log[k].address
          /\ log[k + 1].tag # log[k].tag
          /\ log[k + 1].index = log[k].index
          /\ ~log[k + 2].hit

(***************************************************************************)
(* C8.  Under the Random policy the generator is called exactly once on    *)
(* each miss in a set whose lines are all valid, and never on a hit or on  *)
(* a miss that fills an invalid line; the eviction overwrites the slot of  *)
(* the set whose index is (the value drawn) mod associativity.             *)
(***************************************************************************)
C8_RandomVictim ==
    SelectedReplacement = CACHE_REPLACEMENTPOLICY_RANDOM =>
        \A k \in DOMAIN log :
            /\ IsEviction(k) =>
                  /\ Len(log[k].rng) = 1
                  /\ log[k].line \in LinesOfSet(log[k].index)
                  /\ SlotOf(k) = log[k].rng[1] % cache.associativity
            /\ ~IsEviction(k) => log[k].rng = << >>

(***************************************************************************)
(* C9.  The cache is transparent: every valid line of set s with tag t     *)
(* holds a copy of the line_size bytes of backing memory that start at     *)
(* (t << tag_shift) | (s << index_shift), and so every read whose 4-byte   *)
(* word lies inside one block returns the word backing memory holds at the *)
(* address, on a hit as on a miss.                                         *)
(***************************************************************************)
C9_Transparent ==
    /\ \A s \in 0 .. cache.num_sets - 1 : \A l \in LinesOfSet(s) :
          lines[l].is_valid = 1 =>
             LET base == lines[l].tag * Pow2(cache.tag_shift)
                         + s * Pow2(cache.cache_index_shift)
             IN  \A j \in 0 .. cache.line_size - 1 :
                    memory[l * cache.line_size + j] = BackingByte(base + j)
    /\ \A k \in DOMAIN log :
          log[k].returned /\ log[k].offset + 4 <= cache.line_size =>
             log[k].word = [j \in 1 .. 4 |-> BackingByte(log[k].address + j - 1)]

\* what a trace text tells its reader
TextSaysHit(text) == text \in {"Cache hit in set", "Cache  hit in set"}
TextSaysMiss(text) == text \in {"Cache miss in set", "Cache  miss in set"}

(***************************************************************************)
(* C10.  With trace mode enabled every cache_read emits exactly one trace  *)
(* record, carrying the set index and the full address; the record of a    *)
(* miss says it was a miss and the record of a hit says it was a hit.      *)
(* With trace mode disabled no record is emitted.                          *)
(***************************************************************************)
C10_TraceTellsHitFromMiss ==
    \A k \in DOMAIN log :
        IF BitAnd(cache.policies, CACHE_TRACE_MASK) = CACHE_TRACEPOLICY
        THEN /\ Len(log[k].trace) = 1
             /\ log[k].trace[1].set = log[k].index
             /\ log[k].trace[1].address = log[k].address
             /\ log[k].hit => TextSaysHit(log[k].trace[1].text)
             /\ ~log[k].hit => TextSaysMiss(log[k].trace[1].text)
        ELSE log[k].trace = << >>

(***************************************************************************)
(* C11.  For every geometry whose block_size and num_sets are powers of    *)
(* two, block_size = 1 with num_sets = 1 (tag_shift = 0) included, the     *)
(* decoding of an address is lossless: the offset mask, the index mask and *)
(* the tag mask are pairwise disjoint, together cover every address bit    *)
(* and lie low to high as offset | index | tag, so that                    *)
(* (tag << tag_shift) | (index << index_shift) | offset is the address     *)
(* read.                                                                   *)
(***************************************************************************)
C11_DecodeLossless ==
    /\ cache.block_offset_mask \cap cache.cache_index_mask = {}
    /\ cache.block_offset_mask \cap cache.tag_mask = {}
    /\ cache.cache_index_mask \cap cache.tag_mask = {}
    /\ cache.block_offset_mask \cup cache.cache_index_mask \cup cache.tag_mask
          = 0 .. ADDRESS_BITS - 1
    /\ \A a \in cache.block_offset_mask :
          \A b \in cache.cache_index_mask \cup cache.tag_mask : a < b
    /\ \A b \in cache.cache_index_mask : \A c \in cache.tag_mask : b < c
    /\ \A k \in DOMAIN log :
          log[k].tag * Pow2(cache.tag_shift)
            + log[k].index * Pow2(cache.cache_index_shift)
            + log[k].offset = log[k].address

(***************************************************************************)
(* C12.  If an allocation made during construction fails (the cache_t, the *)
(* arena, the line array, the set array or a set's recency list),          *)
(* construction ends in a fatal error: cache_new returns no cache built on *)
(* the failed allocation, so no read or write is ever made on one.         *)
(***************************************************************************)
C12_AllocationFailureIsFatal ==
    failed # "none" => status # "ok" /\ log = << >> /\ writes = 0

(***************************************************************************)
(* C13.  In every reachable state, for every set and every replacement     *)
(* policy, the tags of the valid lines of the set are pairwise distinct,   *)
(* so a lookup can match at most one line.                                 *)
(***************************************************************************)
C13_TagsDistinct ==
    \A s \in 0 .. cache.num_sets - 1 :
        \A i \in LinesOfSet(s) : \A j \in LinesOfSet(s) :
            i # j /\ lines[i].is_valid = 1 /\ lines[j].is_valid = 1
                => lines[i].tag # lines[j].tag

\* list holds every slot index of a set exactly once
\* (as many positions as slots, each holding a slot, no two the same one)
IsPermutationOfSlots(list) ==
    /\ DOMAIN list = 0 .. cache.associativity - 1
    /\ \A i \in DOMAIN list :
          /\ list[i] \in 0 .. cache.associativity - 1
          /\ \A j \in DOMAIN list : list[i] = list[j] => i = j

(***************************************************************************)
(* C14.  In every reachable state, from construction on and after any      *)
(* sequence of reads under any policy, each set's mru_list is a            *)
(* permutation of the slot indices 0 .. associativity - 1: every index     *)
(* appears exactly once.                                                   *)
(***************************************************************************)
C14_MruListIsPermutation ==
    \A s \in 0 .. cache.num_sets - 1 : IsPermutationOfSlots(mru_list[s])

\* a set of several lines whose list an eviction has reordered, and which
\* is no longer in its initial order
C14_Witness ==
    /\ cache.associativity > 1
    /\ \E k \in DOMAIN log :
          /\ IsEviction(k)
          /\ log[k].mru_after # log[k].mru_before
          /\ mru_list[log[k].index] # InitialMruList(cache)[log[k].index]
          /\ IsPermutationOfSlots(mru_list[log[k].index])

(***************************************************************************)
(* C15.  Capacity is filled before any replacement, under every policy: a  *)
(* miss in a set that still has an invalid line fills the first invalid    *)
(* line in slot order and overwrites no valid line; and the tag of a valid *)
(* line is replaced only by a miss that occurs while every line of the     *)
(* line's set is valid.                                                    *)
(***************************************************************************)
C15_CapacityFilledFirst ==
    [][/\ IsReadStep /\ ~log'[Len(log')].hit /\ ~log'[Len(log')].full =>
             LET s == log'[Len(log')].index
                 first == CHOOSE i \in InvalidSlots(s) :
                              \A j \in InvalidSlots(s) : i <= j
             IN  lines' = [lines EXCEPT ![first_index(s) + first] =
                              [is_valid |-> 1, tag |-> log'[Len(log')].tag]]
       /\ \A l \in DOMAIN lines :
             lines[l].is_valid = 1 /\ lines'[l].tag # lines[l].tag =>
                \A m \in LinesOfSet(l \div cache.associativity) :
                    lines[m].is_valid = 1]_vars

\* the position of a slot in a recency list
PositionOf(list, slot) == CHOOSE i \in DOMAIN list : list[i] = slot

\* the recency lists a set of this cache can be handed: the permutations of
\* its slot indices
RecencyLists ==
    {list \in [0 .. cache.associativity - 1 -> 0 .. cache.associativity - 1] :
        IsPermutationOfSlots(list)}

\* after is before with idx moved to the head: idx first, the entries that
\* were ahead of idx one position further back in the same order, the
\* entries behind idx where they were
MovedToHead(before, idx, after) ==
    LET p == PositionOf(before, idx) IN
    /\ after[0] = idx
    /\ \A i \in 1 .. p : after[i] = before[i - 1]
    /\ \A i \in p + 1 .. cache.associativity - 1 : after[i] = before[i]
    /\ p = 0 => after = before

(***************************************************************************)
(* C16.  cache_line_make_mru(set, idx), for idx at position p of the       *)
(* recency list, produces the list whose head is idx, whose positions      *)
(* 1 .. p hold the former contents of positions 0 .. p-1 in the same       *)
(* order, and whose positions after p are unchanged; applied to the index  *)
(* already at the head it changes nothing.  Stated of the function on      *)
(* every list of the cache's associativity (these depend on the cache      *)
(* alone, and are gone through once, before its first read), and of every  *)
(* read at which the code calls it (the policy word is LRU or MRU): the    *)
(* slot matched or filled is moved to the head of its set's list.          *)
(***************************************************************************)
C16_MakeMruMovesToHead ==
    /\ log = << >> =>
          \A list \in RecencyLists : \A idx \in 0 .. cache.associativity - 1 :
              MovedToHead(list, idx, cache_line_make_mru(list, idx))
    /\ UsesMruList(cache.policies) =>
          \A k \in DOMAIN log :
              MovedToHead(log[k].mru_before, SlotOf(k), log[k].mru_after)

\* a 4-way cache has moved a slot from position 2 or 3 to the head, and has
\* hit on the slot already at the head
C16_Witness ==
    /\ UsesMruList(cache.policies)
    /\ cache.associativity = 4
    /\ \E k \in DOMAIN log :
          /\ PositionOf(log[k].mru_before, SlotOf(k)) >= 2
          /\ log[k].mru_after # log[k].mru_before
          /\ log[k].mru_after[0] = SlotOf(k)
    /\ \E k \in DOMAIN log :
          /\ log[k].hit
          /\ PositionOf(log[k].mru_before, SlotOf(k)) = 0
          /\ log[k].mru_after = log[k].mru_before

(***************************************************************************)
(* C17.  In every state between reads of an LRU or MRU cache, each set's   *)
(* recency list holds the slots of all valid lines before the slots of all *)
(* invalid lines, and the slots of the valid lines from the most recently  *)
(* to the least recently touched.                                          *)
(***************************************************************************)
C17_RecencyOrder ==
    SelectedReplacement \in {CACHE_REPLACEMENTPOLICY_LRU,
                             CACHE_REPLACEMENTPOLICY_MRU} =>
        \A s \in 0 .. cache.num_sets - 1 :
            \A i \in 0 .. cache.associativity - 1 :
                \A j \in i + 1 .. cache.associativity - 1 :
                    LET earlier == first_index(s) + mru_list[s][i]
                        later   == first_index(s) + mru_list[s][j]
                    IN  /\ lines[later].is_valid = 1 => lines[earlier].is_valid = 1
                        /\ lines[earlier].is_valid = 1 /\ lines[later].is_valid = 1
                              => LastTouch(earlier, Len(log) + 1)
                                   > LastTouch(later, Len(log) + 1)

\* the policy words (five flag bits) whose replacement bits select Random
RandomPolicyWords ==
    {p \in 0 .. 2 * CACHE_TRACEPOLICY - 1 :
        BitAnd(p, CACHE_REPLACEMENTPOLICY_MASK) = CACHE_REPLACEMENTPOLICY_RANDOM}

\* the lists that set index can have after cache_read of an address with
\* that index and tag, under a policy word: the list as
\* cache_set_find_matching_line leaves it and, on a miss, as
\* find_available_cache_line (called by cache_set_add) leaves it then, for
\* each value of the generator
RecencyAfterRead(policies, index, tag) ==
    LET match == cache_set_find_matching_line(policies, index, tag)
    IN  IF match.slot < 0
        THEN {find_available_cache_line(policies, index, match.mru,
                                        random_number).mru :
                 random_number \in RngValues}
        ELSE {match.mru}

(***************************************************************************)
(* C18.  Under the Random replacement policy no read, whether a hit, a     *)
(* fill of an invalid line or an eviction, changes any set's recency list: *)
(* every list stays equal to its initial value 0, 1, .., associativity-1.  *)
(* Stated of the runs of a Random cache, and, on each of their states, of  *)
(* the next read under every policy word that selects Random.              *)
(***************************************************************************)
C18_RandomLeavesRecency ==
    SelectedReplacement = CACHE_REPLACEMENTPOLICY_RANDOM =>
        /\ mru_list = InitialMruList(cache)
        /\ \A k \in DOMAIN log : log[k].mru_after = log[k].mru_before
        /\ \A address \in Addrs :
              LET index == Index(address)
                  tag   == Tag(address)
              IN  \A policies \in RandomPolicyWords :
                      RecencyAfterRead(policies, index, tag) = {mru_list[index]}

\* a Random cache of several lines per set has hit, has filled an invalid
\* line and has evicted, and its lists are as cache_set_init left them
C18_Witness ==
    /\ SelectedReplacement = CACHE_REPLACEMENTPOLICY_RANDOM
    /\ cache.associativity > 1
    /\ \E k \in DOMAIN log : log[k].hit
    /\ \E k \in DOMAIN log : ~log[k].hit /\ ~log[k].full
    /\ \E k \in DOMAIN log : IsEviction(k) /\ log[k].returned
    /\ mru_list = InitialMruList(cache)

(***************************************************************************)
(* C19.  A read changes only the set that the index bits of the address    *)
(* select: for every policy and every int the generator may return, the    *)
(* line a miss fills is one of the associativity lines of that set, and    *)
(* the valid flag, the tag, the block and the recency list of every other  *)
(* set are unchanged.                                                      *)
(***************************************************************************)
C19_ReadStaysInSet ==
    [][IsReadStep =>
          LET entry == log'[Len(log')] IN
          /\ ~entry.hit => entry.line \in LinesOfSet(entry.index)
          /\ \A l \in DOMAIN lines \ LinesOfSet(entry.index) :
                /\ lines'[l] = lines[l]
                /\ \A j \in 0 .. cache.line_size - 1 :
                      memory'[l * cache.line_size + j]
                          = memory[l * cache.line_size + j]
          /\ \A s \in DOMAIN mru_list \ {entry.index} :
                mru_list'[s] = mru_list[s]]_vars

(***************************************************************************)
(* C20.  The 4 bytes a read returns all lie inside the block of the line   *)
(* that matched or was just filled: for every geometry and every address   *)
(* read, offset + 4 <= line_size, so the word returned holds no byte of    *)
(* another line's block and no byte past the end of the arena.             *)
(***************************************************************************)
C20_WordInsideBlock ==
    \A k \in DOMAIN log :
        /\ log[k].offset + 4 <= cache.line_size
        /\ log[k].returned /\ log[k].in_bounds =>
              \A j \in 1 .. 4 :
                 /\ log[k].line * cache.line_size + log[k].offset + j - 1
                       < cache.num_bytes
                 /\ log[k].word[j] >= 0

====
